---- MODULE Spec2Model ----
(***************************************************************************)
(* parse_claude_stream.py: a line relay.  main() echoes every line of      *)
(* stdin to stdout, parses it as JSON and reports tool_use / error events  *)
(* and the session boundaries to an external logging hook                  *)
(* (log_to_snowflake).  One action per statement group of main(); a        *)
(* KeyboardInterrupt may arrive before any of them.                        *)
(***************************************************************************)
EXTENDS Integers, Sequences, FiniteSets, TLC

\* ---------------------------------------------------------------- bounds
MaxLines == 2        \* longest input stream explored
MaxInterrupts == 1   \* KeyboardInterrupts delivered in one run
MaxElapsed == 1      \* largest elapsed-milliseconds reading of the clock

\* ------------------------------------------------- Python / JSON values
\* A value is a record tagged by its Python type.
PyStr(s) == [t |-> "str", s |-> s]
PyInt(n) == [t |-> "int", n |-> n]
PyNone == [t |-> "none"]
\* A dict keeps its items in insertion order: a sequence of <<key, value>>.
PyDict(kv) == [t |-> "dict", kv |-> kv]
\* The outcome of json.loads on text that is not JSON.
JSONDecodeError == [t |-> "JSONDecodeError"]

\* dict.get(key, default)
Get(d, key, default) ==
  IF \E i \in 1..Len(d.kv) : d.kv[i][1] = key
  THEN d.kv[CHOOSE i \in 1..Len(d.kv) : d.kv[i][1] = key][2]
  ELSE default

\* Python truth value of a parsed JSON value (`if parameters`).
Truthy(v) ==
  CASE v.t = "str" -> v.s # ""
    [] v.t = "int" -> v.n # 0
    [] v.t = "none" -> FALSE
    [] v.t = "dict" -> Len(v.kv) > 0

\* json.dumps with the default separators ", " and ": ".
RECURSIVE Dumps(_)
RECURSIVE DumpsItems(_, _)
Dumps(v) ==
  CASE v.t = "str" -> "\"" \o v.s \o "\""
    [] v.t = "int" -> ToString(v.n)
    [] v.t = "none" -> "null"
    [] v.t = "dict" -> "{" \o DumpsItems(v.kv, 1) \o "}"
DumpsItems(kv, i) ==
  IF i > Len(kv) THEN ""
  ELSE "\"" \o kv[i][1] \o "\": " \o Dumps(kv[i][2])
       \o (IF i < Len(kv) THEN ", " ELSE "") \o DumpsItems(kv, i + 1)

\* ------------------------------------------------------------ the input
\* The lines stdin may deliver: raw is the text read (terminator included),
\* json is what json.loads(raw.strip()) returns for it.
InputLines ==
  { [raw |-> "not json at all\n", json |-> JSONDecodeError],
    [raw |-> "42\n", json |-> PyInt(42)],
    [raw |-> "{\"type\":\"tool_use\",\"tool\":\"search\",\"parameters\":{\"q\":\"x\"}}\n",
     json |-> PyDict(<< <<"type", PyStr("tool_use")>>, <<"tool", PyStr("search")>>,
                        <<"parameters", PyDict(<< <<"q", PyStr("x")>> >>)>> >>)],
    [raw |-> "  {\"type\":\"tool_use\"}",
     json |-> PyDict(<< <<"type", PyStr("tool_use")>> >>)],
    [raw |-> "{\"type\":\"tool_use\",\"tool\":7}\n",
     json |-> PyDict(<< <<"type", PyStr("tool_use")>>, <<"tool", PyInt(7)>> >>)],
    [raw |-> "{\"type\":\"error\",\"message\":\"boom\"}\n",
     json |-> PyDict(<< <<"type", PyStr("error")>>, <<"message", PyStr("boom")>> >>)],
    [raw |-> "{\"type\":\"error\"}\n",
     json |-> PyDict(<< <<"type", PyStr("error")>> >>)],
    [raw |-> "{\"text\":\"hi\"}\n",
     json |-> PyDict(<< <<"text", PyStr("hi")>> >>)],
    [raw |-> "{\"type\":\"text\"}\n",
     json |-> PyDict(<< <<"type", PyStr("text")>> >>)] }

\* json.loads(line.strip())
JsonLoads(line) == line.json

Streams == UNION { [1..n -> InputLines] : n \in 0..MaxLines }

\* ----------------------------------------------------------- the state
VARIABLES
  stdin,           \* the lines standard input holds
  pos,             \* how many of them `for line in sys.stdin` has delivered
  stdout,          \* the text written to standard output, one entry per print
  stderr,          \* the diagnostic messages, in order
  hooks,           \* the calls of log_to_snowflake, in order
  activity_count,
  total_tokens,
  data,            \* main's local `data`
  parsed,          \* main's locals tool_name, params_json, duration_ms, tokens_used
  pc,              \* the statement main() executes next
  pending,         \* the exception in flight while the finally block runs
  interrupts,      \* where each KeyboardInterrupt arrived
  mark             \* history: the counters and output sizes when the current line was read

vars == <<stdin, pos, stdout, stderr, hooks, activity_count, total_tokens,
          data, parsed, pc, pending, interrupts, mark>>

SESSION_ID == "session-1"
Cwd == "/work"

\* The statements inside `try:` (lines 50-78).
TryLocs == {"loop", "echo", "parse", "dispatch", "count", "tokens",
            "tool_log", "err_log"}
\* The statements before `try:` (lines 40-47).
PreLocs == {"banner", "session_start", "init"}
\* The finally block (lines 84-86).
FinallyLocs == {"session_end", "summary"}

Init ==
  /\ stdin \in Streams
  /\ pos = 0
  /\ stdout = <<>>
  /\ stderr = <<>>
  /\ hooks = <<>>
  /\ activity_count = 0
  /\ total_tokens = 0
  /\ data = PyNone
  /\ parsed = PyNone
  /\ pc = "banner"
  /\ pending = "none"
  /\ interrupts = <<>>
  /\ mark = [hooks |-> 0, stdout |-> 0, count |-> 0, tokens |-> 0]

\* ------------------------------------------------------ log_to_snowflake
\* subprocess.run raises TypeError for an argument that is not a string, and
\* OSError when the executable is missing or not executable.
Raises(args, envFails) ==
  IF \E i \in 1..Len(args) : args[i].t # "str" THEN "TypeError"
  ELSE IF envFails THEN "OSError"
  ELSE "none"

\* Mutant: a failed call is reported and then attempted a second time.
log_to_snowflake_Retry(activity_type, args) ==
  \E envFails \in BOOLEAN :
    LET e == Raises(args, envFails)
        call == [kind |-> activity_type, args |-> args, ok |-> e = "none"] IN
    /\ hooks' = IF e = "none" THEN Append(hooks, call)
                ELSE Append(Append(hooks, call), call)
    /\ stderr' = IF e = "none" THEN stderr
                 ELSE Append(stderr, "Error logging to Snowflake: " \o e)

\* One call: the attempt is recorded; an exception is caught and reported.
log_to_snowflake(activity_type, args) ==
  \E envFails \in BOOLEAN :
    LET e == Raises(args, envFails) IN
    /\ hooks' = Append(hooks, [kind |-> activity_type, args |-> args, ok |-> e = "none"])
    /\ stderr' = IF e = "none" THEN stderr
                 ELSE Append(stderr, "Error logging to Snowflake: " \o e)

\* ------------------------------------------------------- parse_tool_use
\* Mutant: data.get('tool') without the default.
parse_tool_use_NoDefault(d) ==
  LET parameters == Get(d, "parameters", PyDict(<<>>)) IN
  [tool_name |-> Get(d, "tool", PyNone),
   params_json |-> IF Truthy(parameters) THEN Dumps(parameters) ELSE "{}",
   duration_ms |-> 100,
   tokens_used |-> Len(Dumps(d)) \div 4]

\* Mutant: the token estimate rounded up instead of down.
parse_tool_use_RoundUp(d) ==
  LET parameters == Get(d, "parameters", PyDict(<<>>)) IN
  [tool_name |-> Get(d, "tool", PyStr("unknown")),
   params_json |-> IF Truthy(parameters) THEN Dumps(parameters) ELSE "{}",
   duration_ms |-> 100,
   tokens_used |-> (Len(Dumps(d)) + 3) \div 4]

parse_tool_use(d) ==
  LET parameters == Get(d, "parameters", PyDict(<<>>)) IN
  [tool_name |-> Get(d, "tool", PyStr("unknown")),
   params_json |-> IF Truthy(parameters) THEN Dumps(parameters) ELSE "{}",
   duration_ms |-> 100,
   tokens_used |-> Len(Dumps(d)) \div 4]

\* ----------------------------------------------------------------- main
\* line 40
Banner ==
  /\ pc = "banner"
  /\ stderr' = Append(stderr, "Starting Claude stream parser (session: " \o SESSION_ID \o ")")
  /\ pc' = "session_start"
  /\ UNCHANGED <<stdin, pos, stdout, hooks, activity_count, total_tokens,
                 data, parsed, pending, interrupts, mark>>

\* line 43
SessionStart ==
  /\ pc = "session_start"
  /\ log_to_snowflake("session_start", <<PyStr(Cwd)>>)
  /\ pc' = "init"
  /\ UNCHANGED <<stdin, pos, stdout, activity_count, total_tokens,
                 data, parsed, pending, interrupts, mark>>

\* lines 45-47
InitCounters ==
  /\ pc = "init"
  /\ activity_count' = 0
  /\ total_tokens' = 0
  /\ pc' = "loop"
  /\ UNCHANGED <<stdin, pos, stdout, stderr, hooks, data, parsed, pending, interrupts, mark>>

\* line 50, a line is delivered
ReadLine ==
  /\ pc = "loop"
  /\ pos < Len(stdin)
  /\ pos' = pos + 1
  /\ data' = PyNone
  /\ parsed' = PyNone
  /\ pc' = "echo"
  /\ mark' = [hooks |-> Len(hooks), stdout |-> Len(stdout),
              count |-> activity_count, tokens |-> total_tokens]
  /\ UNCHANGED <<stdin, stdout, stderr, hooks, activity_count, total_tokens,
                 pending, interrupts>>

\* line 50, end of stream: the loop ends and the finally block runs
EndOfStream ==
  /\ pc = "loop"
  /\ pos = Len(stdin)
  /\ pc' = "session_end"
  /\ UNCHANGED <<stdin, pos, stdout, stderr, hooks, activity_count, total_tokens,
                 data, parsed, pending, interrupts, mark>>

\* line 52
Echo ==
  /\ pc = "echo"
  /\ stdout' = Append(stdout, stdin[pos].raw)
  /\ pc' = "parse"
  /\ UNCHANGED <<stdin, pos, stderr, hooks, activity_count, total_tokens,
                 data, parsed, pending, interrupts, mark>>

\* lines 56 and 76-78
Parse ==
  /\ pc = "parse"
  /\ LET v == JsonLoads(stdin[pos]) IN
     IF v = JSONDecodeError
     THEN /\ pc' = "loop"
          /\ data' = data
     ELSE /\ pc' = "dispatch"
          /\ data' = v
  /\ UNCHANGED <<stdin, pos, stdout, stderr, hooks, activity_count, total_tokens,
                 parsed, pending, interrupts, mark>>

\* Mutant: `except Exception:` in place of `except KeyboardInterrupt:`.
Catches_Exception(exc) == exc # "KeyboardInterrupt"

\* Which exceptions `except KeyboardInterrupt:` (line 80) catches.
Catches(exc) == exc = "KeyboardInterrupt"

\* Mutant: a missing type read as "tool_use".
EventType_Default(d) == Get(d, "type", PyStr("tool_use"))

\* data.get('type')
EventType(d) == Get(d, "type", PyNone)

\* lines 59 and 68: data.get('type') on a value that is no dict raises
\* AttributeError, which `except json.JSONDecodeError` (line 76) does not name.
Dispatch ==
  /\ pc = "dispatch"
  /\ IF data.t # "dict"
     THEN IF Catches("AttributeError")
          THEN /\ pc' = "interrupted"
               /\ pending' = pending
          ELSE /\ pc' = "session_end"
               /\ pending' = "AttributeError"
     ELSE /\ pending' = pending
          /\ pc' = CASE EventType(data) = PyStr("tool_use") -> "count"
                     [] EventType(data) = PyStr("error") -> "err_log"
                     [] OTHER -> "loop"
  /\ UNCHANGED <<stdin, pos, stdout, stderr, hooks, activity_count, total_tokens,
                 data, parsed, interrupts, mark>>

\* line 60
Count ==
  /\ pc = "count"
  /\ activity_count' = activity_count + 1
  /\ pc' = "tokens"
  /\ UNCHANGED <<stdin, pos, stdout, stderr, hooks, total_tokens,
                 data, parsed, pending, interrupts, mark>>

\* lines 61-62
Tokens ==
  /\ pc = "tokens"
  /\ parsed' = parse_tool_use(data)
  /\ total_tokens' = total_tokens + parsed'.tokens_used
  /\ pc' = "tool_log"
  /\ UNCHANGED <<stdin, pos, stdout, stderr, hooks, activity_count,
                 data, pending, interrupts, mark>>

\* lines 65-66
LogToolUse ==
  /\ pc = "tool_log"
  /\ log_to_snowflake("tool_call",
        <<parsed.tool_name, PyStr(parsed.params_json), PyStr("success"),
          PyStr(ToString(parsed.duration_ms)), PyStr(ToString(parsed.tokens_used))>>)
  /\ pc' = "loop"
  /\ UNCHANGED <<stdin, pos, stdout, activity_count, total_tokens,
                 data, parsed, pending, interrupts, mark>>

\* Mutant: an error event counted as an activity.
LogError_Counted ==
  /\ pc = "err_log"
  /\ LET error_msg == Get(data, "message", PyStr("Unknown error")) IN
     log_to_snowflake("tool_call",
        <<PyStr("error"), PyStr(Dumps(PyDict(<< <<"error", error_msg>> >>))),
          PyStr("error"), PyStr("0"), PyStr("0")>>)
  /\ activity_count' = activity_count + 1
  /\ pc' = "loop"
  /\ UNCHANGED <<stdin, pos, stdout, total_tokens,
                 data, parsed, pending, interrupts, mark>>

\* lines 70-72
LogError ==
  /\ pc = "err_log"
  /\ LET error_msg == Get(data, "message", PyStr("Unknown error")) IN
     log_to_snowflake("tool_call",
        <<PyStr("error"), PyStr(Dumps(PyDict(<< <<"error", error_msg>> >>))),
          PyStr("error"), PyStr("0"), PyStr("0")>>)
  /\ pc' = "loop"
  /\ UNCHANGED <<stdin, pos, stdout, activity_count, total_tokens,
                 data, parsed, pending, interrupts, mark>>

\* Mutant: the except clause logs the session end itself, before the
\* finally block does.
Interrupted_LogsEnd ==
  /\ pc = "interrupted"
  /\ hooks' = Append(hooks, [kind |-> "session_end",
                             args |-> <<PyStr(ToString(activity_count)),
                                        PyStr(ToString(total_tokens)), PyStr("0")>>,
                             ok |-> TRUE])
  /\ stderr' = Append(stderr, "\nStream parsing interrupted")
  /\ pc' = "session_end"
  /\ UNCHANGED <<stdin, pos, stdout, activity_count, total_tokens,
                 data, parsed, pending, interrupts, mark>>

\* lines 80-81
Interrupted ==
  /\ pc = "interrupted"
  /\ stderr' = Append(stderr, "\nStream parsing interrupted")
  /\ pc' = "session_end"
  /\ UNCHANGED <<stdin, pos, stdout, hooks, activity_count, total_tokens,
                 data, parsed, pending, interrupts, mark>>

\* Mutant: the token total and the activity count passed in each other's place.
SessionEnd_Swapped ==
  /\ pc = "session_end"
  /\ \E duration_ms \in 0..MaxElapsed :
       log_to_snowflake("session_end",
          <<PyStr(ToString(total_tokens)), PyStr(ToString(activity_count)),
            PyStr(ToString(duration_ms))>>)
  /\ pc' = "summary"
  /\ UNCHANGED <<stdin, pos, stdout, activity_count, total_tokens,
                 data, parsed, pending, interrupts, mark>>

\* lines 84-85
SessionEnd ==
  /\ pc = "session_end"
  /\ \E duration_ms \in 0..MaxElapsed :
       log_to_snowflake("session_end",
          <<PyStr(ToString(activity_count)), PyStr(ToString(total_tokens)),
            PyStr(ToString(duration_ms))>>)
  /\ pc' = "summary"
  /\ UNCHANGED <<stdin, pos, stdout, activity_count, total_tokens,
                 data, parsed, pending, interrupts, mark>>

\* line 86, then the end of the finally block: the exception in flight, if
\* any, leaves main().
Summary ==
  /\ pc = "summary"
  /\ stderr' = Append(stderr, "Session ended: " \o ToString(activity_count) \o " activities logged")
  /\ pc' = IF pending = "none" THEN "done" ELSE "failed"
  /\ UNCHANGED <<stdin, pos, stdout, hooks, activity_count, total_tokens,
                 data, parsed, pending, interrupts, mark>>

\* A KeyboardInterrupt arrives before the statement at pc runs.
KeyboardInterrupt ==
  /\ Len(interrupts) < MaxInterrupts
  /\ pc \in PreLocs \cup TryLocs \cup {"interrupted"} \cup FinallyLocs
  /\ interrupts' = Append(interrupts, pc)
  /\ CASE pc \in PreLocs ->
            \* outside the try statement: nothing handles it
            /\ pc' = "failed"
            /\ pending' = "KeyboardInterrupt"
       [] pc \in TryLocs ->
            IF Catches("KeyboardInterrupt")
            THEN /\ pc' = "interrupted"
                 /\ pending' = pending
            ELSE /\ pc' = "session_end"
                 /\ pending' = "KeyboardInterrupt"
       [] pc = "interrupted" ->
            \* raised inside the except clause: the finally block still runs
            /\ pc' = "session_end"
            /\ pending' = "KeyboardInterrupt"
       [] pc \in FinallyLocs ->
            \* raised inside the finally block: the rest of it is skipped
            /\ pc' = "failed"
            /\ pending' = "KeyboardInterrupt"
  /\ UNCHANGED <<stdin, pos, stdout, stderr, hooks, activity_count, total_tokens,
                 data, parsed, mark>>

Next ==
  \/ Banner
  \/ SessionStart
  \/ InitCounters
  \/ ReadLine
  \/ EndOfStream
  \/ Echo
  \/ Parse
  \/ Dispatch
  \/ Count
  \/ Tokens
  \/ LogToolUse
  \/ LogError
  \/ Interrupted
  \/ SessionEnd
  \/ Summary
  \/ KeyboardInterrupt

Spec == Init /\ [][Next]_vars

\* ------------------------------------------------------------ properties
Terminal == pc \in {"done", "failed"}

\* The current line's processing is over: the loop is back at its head, or
\* an exception took the line out of the loop.
LineDone == pos > 0 /\ pc = "loop"
LineRaised == pos > 0 /\ pc = "session_end" /\ pending = "AttributeError"

IsObject(l) == l.json # JSONDecodeError /\ l.json.t = "dict"
TypeField(l) == IF \E i \in 1..Len(l.json.kv) : l.json.kv[i][1] = "type"
                THEN (CHOOSE pr \in {l.json.kv[i] : i \in 1..Len(l.json.kv)} : pr[1] = "type")[2]
                ELSE PyNone
IsToolUseLine(l) == IsObject(l) /\ TypeField(l) = PyStr("tool_use")
IsErrorLine(l) == IsObject(l) /\ TypeField(l) = PyStr("error")
HasField(l, k) == \E i \in 1..Len(l.json.kv) : l.json.kv[i][1] = k
Field(l, k) == (CHOOSE pr \in {l.json.kv[i] : i \in 1..Len(l.json.kv)} : pr[1] = k)[2]

LastHook == hooks[Len(hooks)]
HooksOfKind(k) == {i \in 1..Len(hooks) : hooks[i].kind = k}
SuccessCalls == {i \in 1..Len(hooks) :
                   hooks[i].kind = "tool_call" /\ hooks[i].args[3] = PyStr("success")}
AllInTry == \A i \in 1..Len(interrupts) : interrupts[i] \in TryLocs
\* The number a decimal string stands for.
IntOf(s) == CHOOSE n \in 0..999 : ToString(n) = s
RECURSIVE SumOver(_, _)
SumOver(S, f) == IF S = {} THEN 0
                 ELSE LET x == CHOOSE y \in S : TRUE IN f[x] + SumOver(S \ {x}, f)

\* C1: when main() runs to the end without interruption, the lines written
\* to standard output are the input lines, each once, in order.
C1_EchoAll ==
  (Terminal /\ interrupts = <<>>) =>
     stdout = [i \in 1..Len(stdin) |-> stdin[i].raw]

\* C2 (as claimed): in every run, interrupted anywhere or not, session_start
\* and session_end are each invoked exactly once.
C2_Original ==
  Terminal => /\ Cardinality(HooksOfKind("session_start")) = 1
              /\ Cardinality(HooksOfKind("session_end")) = 1

\* C2 (amended): session_start and session_end are never invoked twice,
\* session_start precedes every read and echo, nothing is read, echoed or
\* logged once session_end has been invoked, and a run whose interruptions
\* all arrive inside the try block ends with exactly one of each.
C2_SessionBoundaries ==
  /\ [](/\ Cardinality(HooksOfKind("session_start")) <= 1
        /\ Cardinality(HooksOfKind("session_end")) <= 1
        /\ (pos > 0 \/ stdout # <<>> \/ Len(hooks) > 0) => hooks[1].kind = "session_start"
        /\ (Terminal /\ AllInTry) =>
              /\ Cardinality(HooksOfKind("session_start")) = 1
              /\ Cardinality(HooksOfKind("session_end")) = 1)
  /\ [][HooksOfKind("session_end") # {} =>
          /\ stdout' = stdout
          /\ pos' = pos
          /\ hooks' = hooks]_vars

C2_Witness ==
  /\ pc = "done"
  /\ interrupts # <<>> /\ AllInTry
  /\ Len(stdout) = 2
  /\ Cardinality(HooksOfKind("tool_call")) = 1
  /\ Cardinality(HooksOfKind("session_end")) = 1

\* C3 (as claimed): an interruption arriving at any point is caught and the
\* run ends normally after the shutdown sequence.
C3_Original ==
  (Terminal /\ interrupts # <<>>) =>
     /\ pc = "done"
     /\ LastHook.kind = "session_end"

\* C3 (amended): an interruption arriving inside the try block (with none
\* arriving elsewhere) is caught: no further line is read, session_end is
\* invoked, then the summary is written, and main() returns normally.
C3_InterruptCaught ==
  /\ []((interrupts # <<>> /\ AllInTry) =>
          /\ pc \in {"interrupted", "session_end", "summary", "done"}
          /\ pending = "none"
          /\ pc = "done" =>
               /\ LastHook.kind = "session_end"
               /\ \E i \in 1..Len(stderr) : stderr[i] = "\nStream parsing interrupted"
               /\ stderr[Len(stderr)] =
                    "Session ended: " \o ToString(activity_count) \o " activities logged")
  /\ [][interrupts # <<>> => pos' = pos /\ stdout' = stdout]_vars

C3_Witness ==
  /\ pc = "done"
  /\ interrupts = <<"tool_log">>
  /\ pos < Len(stdin)

\* C4: no line is fatal: no exception other than an interruption leaves the
\* loop, and a run that is not interrupted outside the try block returns
\* normally.
C4_NoFatalLine ==
  /\ pending # "AttributeError"
  /\ (Terminal /\ AllInTry) => pc = "done"

\* C5: a tool_use line causes exactly one tool_call invocation, with status
\* "success" and the tool field (or "unknown") as tool, and adds exactly 1
\* to the activity counter.
C5_ToolUse ==
  (LineDone /\ IsToolUseLine(stdin[pos])) =>
     /\ Len(hooks) = mark.hooks + 1
     /\ LastHook.kind = "tool_call"
     /\ LastHook.args[3] = PyStr("success")
     /\ LastHook.args[1] = IF HasField(stdin[pos], "tool")
                           THEN Field(stdin[pos], "tool") ELSE PyStr("unknown")
     /\ activity_count = mark.count + 1

C5_Witness ==
  /\ LineDone /\ IsToolUseLine(stdin[pos])
  /\ ~HasField(stdin[pos], "tool")
  /\ mark.count = 1
  /\ activity_count = 2

\* C6: an error line causes exactly one tool_call invocation with arguments
\* ("error", {"error": message or "Unknown error"}, "error", "0", "0") and
\* leaves the activity counter and the token total as they were.
C6_ErrorLine ==
  (LineDone /\ IsErrorLine(stdin[pos])) =>
     /\ Len(hooks) = mark.hooks + 1
     /\ LastHook.kind = "tool_call"
     /\ LastHook.args =
          << PyStr("error"),
             PyStr("{\"error\": \""
                   \o (IF HasField(stdin[pos], "message")
                       THEN Field(stdin[pos], "message").s ELSE "Unknown error")
                   \o "\"}"),
             PyStr("error"), PyStr("0"), PyStr("0") >>
     /\ activity_count = mark.count
     /\ total_tokens = mark.tokens

C6_Witness ==
  /\ LineDone /\ IsErrorLine(stdin[pos])
  /\ ~HasField(stdin[pos], "message")
  /\ mark.count = 1 /\ mark.tokens > 0

\* C7: a line that is not JSON, or is JSON of another type or of none,
\* causes no hook invocation and changes neither counter: it is only echoed.
C7_Ignored ==
  ((LineDone \/ LineRaised)
     /\ ~IsToolUseLine(stdin[pos]) /\ ~IsErrorLine(stdin[pos])) =>
     /\ Len(hooks) = mark.hooks
     /\ activity_count = mark.count
     /\ total_tokens = mark.tokens
     /\ stdout = Append(SubSeq(stdout, 1, mark.stdout), stdin[pos].raw)

C7_Witness ==
  /\ LineDone
  /\ IsObject(stdin[pos]) /\ ~HasField(stdin[pos], "type")
  /\ mark.count = 1 /\ mark.hooks = 2

\* C8: a hook invocation that fails is reported on the diagnostic stream
\* and nothing else: it is attempted once, the run goes on to the statement
\* that follows a successful call, and counters and output are untouched, so
\* that at the loop head every line read so far has been echoed and every
\* tool_use line counted, whether its invocation failed or not.
C8_HookFailure ==
  /\ [][(Len(hooks') > Len(hooks) /\ ~hooks'[Len(hooks')].ok) =>
          /\ Len(hooks') = Len(hooks) + 1
          /\ Len(stderr') = Len(stderr) + 1
          /\ pc' = CASE pc = "session_start" -> "init"
                     [] pc = "tool_log" -> "loop"
                     [] pc = "err_log" -> "loop"
                     [] pc = "session_end" -> "summary"
                     [] OTHER -> "none"
          /\ pending' = pending
          /\ stdout' = stdout
          /\ activity_count' = activity_count
          /\ total_tokens' = total_tokens]_vars
  /\ [](pc = "loop" =>
          /\ stdout = [i \in 1..pos |-> stdin[i].raw]
          /\ activity_count = Cardinality({i \in 1..pos : IsToolUseLine(stdin[i])}))

C8_Witness ==
  /\ pc = "loop" /\ pos = 2
  /\ Len(hooks) = 2
  /\ ~hooks[2].ok /\ hooks[2].kind = "tool_call"
  /\ Len(stdout) = 2
  /\ activity_count = 1

\* The counts session_end is given are those of the "success" invocations.
TotalsMatch ==
  \A i \in HooksOfKind("session_end") :
        /\ hooks[i].args[1] = PyStr(ToString(Cardinality(SuccessCalls)))
        /\ hooks[i].args[2] =
             PyStr(ToString(SumOver(SuccessCalls,
                                    [j \in SuccessCalls |-> IntOf(hooks[j].args[5].s)])))

\* An uninterrupted run on empty input: session_start, then session_end
\* with 0 and 0, and nothing on stdout.
EmptyRun ==
  (Terminal /\ stdin = <<>> /\ interrupts = <<>>) =>
     /\ stdout = <<>>
     /\ Len(hooks) = 2
     /\ hooks[1].kind = "session_start"
     /\ hooks[2].kind = "session_end"
     /\ hooks[2].args[1] = PyStr("0") /\ hooks[2].args[2] = PyStr("0")

\* C9 (as claimed): in every run, interrupted ones included, the activity
\* count passed to session_end is the number of tool_call invocations with
\* status "success" and the token total passed is the sum of their token
\* estimates; an empty input yields session_start then session_end with 0
\* and 0 and nothing on stdout.
C9_Original == TotalsMatch /\ EmptyRun

\* Between the counter increment (line 60) and the hook call (line 65).
CountedNotLogged == {"tokens", "tool_log"}

\* C9 (amended): when no interruption arrives between a tool_use line's
\* counter increment and its hook invocation, the activity count passed to
\* session_end is the number of tool_call invocations with status "success"
\* and the token total passed is the sum of their token estimates; an empty
\* input yields session_start then session_end with 0 and 0 and nothing on
\* stdout.
C9_SessionEndTotals ==
  /\ (\A k \in 1..Len(interrupts) : interrupts[k] \notin CountedNotLogged) => TotalsMatch
  /\ EmptyRun

C9_Witness ==
  /\ pc = "done"
  /\ interrupts = <<"loop">>
  /\ Cardinality(SuccessCalls) = 2
  /\ total_tokens = 21

\* C10: the token estimate of a tool_use line is the length of the
\* serialized event divided by 4, rounded down; that value is passed to the
\* hook and added to the total, with duration 100; the total is the sum of
\* the rounded estimates.
C10_TokenEstimate ==
  /\ (LineDone /\ IsToolUseLine(stdin[pos])) =>
        /\ LastHook.args[4] = PyStr("100")
        /\ LastHook.args[5] = PyStr(ToString(Len(Dumps(stdin[pos].json)) \div 4))
        /\ total_tokens = mark.tokens + Len(Dumps(stdin[pos].json)) \div 4
  /\ pc = "loop" =>
        total_tokens =
          SumOver({i \in 1..pos : IsToolUseLine(stdin[i])},
                  [i \in {j \in 1..pos : IsToolUseLine(stdin[j])} |->
                     Len(Dumps(stdin[i].json)) \div 4])

C10_Witness ==
  /\ pc = "loop" /\ pos = 2
  /\ IsToolUseLine(stdin[1]) /\ IsToolUseLine(stdin[2])
  /\ total_tokens = 14
  /\ (Len(Dumps(stdin[1].json)) + Len(Dumps(stdin[2].json))) \div 4 = 15

====
